---- MODULE Spec2Model ----
(***************************************************************************)
(* Model of src/tokenserver/handlers.rs: the get_tokenserver_result        *)
(* handler (state load, pool checkout, node-assignment lookup, identifier  *)
(* hashing, key-id formatting, secret load, expiry, minting, response) and *)
(* the heartbeat handler.                                                  *)
(*                                                                         *)
(* Representation.  A Rust String / &str is a sequence of one-character    *)
(* strings; a Vec<u8> is a sequence of 0..255.  A 64-bit counter is kept   *)
(* as its canonical decimal numeral (a sequence of digits 0..9, most       *)
(* significant first, no leading zero), so that values around 10^13 and    *)
(* 2^64 are exact.                                                         *)
(***************************************************************************)
EXTENDS Integers, Sequences, FiniteSets, TLC

\* ------------------------------------------------------------------------
\* Characters and bytes
\* ------------------------------------------------------------------------

\* Printable ASCII, code 32 (space) .. 126 (~), in code order; the entry for
\* code 96 is spelled out, as no identifier or number handled here contains it.
AsciiTable ==
  << " ", "!", "\"", "#", "$", "%", "&", "'", "(", ")", "*", "+", ",", "-", ".", "/",
     "0", "1", "2", "3", "4", "5", "6", "7", "8", "9", ":", ";", "<", "=", ">", "?",
     "@", "A", "B", "C", "D", "E", "F", "G", "H", "I", "J", "K", "L", "M", "N", "O",
     "P", "Q", "R", "S", "T", "U", "V", "W", "X", "Y", "Z", "[", "\\", "]", "^", "_",
     "grave", "a", "b", "c", "d", "e", "f", "g", "h", "i", "j", "k", "l", "m", "n", "o",
     "p", "q", "r", "s", "t", "u", "v", "w", "x", "y", "z", "{", "|", "}", "~" >>

\* str::as_bytes for the ASCII strings handled here.
CharCode(c) == 31 + (CHOOSE i \in 1..Len(AsciiTable) : AsciiTable[i] = c)

as_bytes(s) == [i \in 1..Len(s) |-> CharCode(s[i])]

\* ------------------------------------------------------------------------
\* Decimal numerals (u64 values) and integer formatting
\* ------------------------------------------------------------------------

DecChars == << "0", "1", "2", "3", "4", "5", "6", "7", "8", "9" >>

DigitChar(d) == DecChars[d + 1]

\* 2^64 - 1 = 18446744073709551615
U64_MAX == << 1,8,4,4,6,7,4,4,0,7,3,7,0,9,5,5,1,6,1,5 >>

NumLess(a, b) ==
  \/ Len(a) < Len(b)
  \/ /\ Len(a) = Len(b)
     /\ \E i \in 1..Len(a) :
          /\ a[i] < b[i]
          /\ \A j \in 1..(i - 1) : a[j] = b[j]

NumLeq(a, b) == a = b \/ NumLess(a, b)

NumMax(a, b) == IF NumLess(a, b) THEN b ELSE a

RECURSIVE AddFrom(_, _, _, _)
\* Schoolbook addition; k low-order digits are already consumed, c is the carry.
AddFrom(a, b, k, c) ==
  IF k >= Len(a) /\ k >= Len(b)
  THEN (IF c = 0 THEN << >> ELSE << c >>)
  ELSE LET da == IF k < Len(a) THEN a[Len(a) - k] ELSE 0
           db == IF k < Len(b) THEN b[Len(b) - k] ELSE 0
           s  == da + db + c
       IN  AddFrom(a, b, k + 1, s \div 10) \o << s % 10 >>

NumAdd(a, b) == AddFrom(a, b, 0, 0)

\* u64::checked_add: the sum when it fits in 64 bits.
CheckedAddFits(a, b) == NumLeq(NumAdd(a, b), U64_MAX)

\* Display of an unsigned counter ("{}").
DisplayNum(n) == [i \in 1..Len(n) |-> DigitChar(n[i])]

RECURSIVE NatDigits(_)
NatDigits(n) == IF n < 10 THEN << n >> ELSE NatDigits(n \div 10) \o << n % 10 >>

\* Display of an i64 ("{:}"): sign, then the digits without padding.
DisplayInt(i) ==
  IF i < 0 THEN << "-" >> \o DisplayNum(NatDigits(0 - i))
           ELSE DisplayNum(NatDigits(i))

\* Width of the zero-padded counter in "{:013}-{:}".
PadWidth == 13

Format013_Short(n) ==
  LET s == DisplayNum(n)
  IN  IF Len(s) >= PadWidth - 1 THEN s
      ELSE [i \in 1..(PadWidth - 1 - Len(s)) |-> "0"] \o s

\* "{:013}": zero-pad on the left up to a MINIMUM width of 13; longer values
\* are printed in full.
Format013(n) ==
  LET s == DisplayNum(n)
  IN  IF Len(s) >= PadWidth THEN s
      ELSE [i \in 1..(PadWidth - Len(s)) |-> "0"] \o s

\* ------------------------------------------------------------------------
\* base64::encode_config(_, URL_SAFE_NO_PAD)
\* ------------------------------------------------------------------------

UrlSafeAlphabet ==
  << "A", "B", "C", "D", "E", "F", "G", "H", "I", "J", "K", "L", "M", "N", "O", "P",
     "Q", "R", "S", "T", "U", "V", "W", "X", "Y", "Z", "a", "b", "c", "d", "e", "f",
     "g", "h", "i", "j", "k", "l", "m", "n", "o", "p", "q", "r", "s", "t", "u", "v",
     "w", "x", "y", "z", "0", "1", "2", "3", "4", "5", "6", "7", "8", "9", "-", "_" >>

B64Char(v) == UrlSafeAlphabet[v + 1]

RECURSIVE Base64UrlNoPad(_)
Base64UrlNoPad(bytes) ==
  IF Len(bytes) = 0 THEN << >>
  ELSE IF Len(bytes) = 1 THEN
    << B64Char(bytes[1] \div 4), B64Char((bytes[1] % 4) * 16) >>
  ELSE IF Len(bytes) = 2 THEN
    << B64Char(bytes[1] \div 4),
       B64Char((bytes[1] % 4) * 16 + bytes[2] \div 16),
       B64Char((bytes[2] % 16) * 4) >>
  ELSE
    << B64Char(bytes[1] \div 4),
       B64Char((bytes[1] % 4) * 16 + bytes[2] \div 16),
       B64Char((bytes[2] % 16) * 4 + bytes[3] \div 64),
       B64Char(bytes[3] % 64) >>
    \o Base64UrlNoPad(SubSeq(bytes, 4, Len(bytes)))

\* ------------------------------------------------------------------------
\* Identifier hasher
\* ------------------------------------------------------------------------

HexChars == << "0", "1", "2", "3", "4", "5", "6", "7",
               "8", "9", "a", "b", "c", "d", "e", "f" >>

\* hex::encode: two lowercase hex characters per byte, high nibble first.
hex_encode(bytes) ==
  [i \in 1..(2 * Len(bytes)) |->
     LET b == bytes[(i + 1) \div 2]
     IN  IF i % 2 = 1 THEN HexChars[(b \div 16) + 1] ELSE HexChars[(b % 16) + 1]]

RECURSIVE WeightedSum(_, _, _)
WeightedSum(bytes, k, w) ==
  IF k > Len(bytes) THEN 0
  ELSE (bytes[k] * (w + k) + WeightedSum(bytes, k + 1, w)) % 65536

DigestLen == 32

\* Hmac::<Sha256>::new_from_slice(key) / update(msg) / finalize(): a
\* deterministic 32-byte keyed digest.  The compression function of the
\* hmac/sha2 crates is replaced here by a keyed position-weighted checksum;
\* what the handler relies on is kept: 32 output bytes, a function of
\* (key, msg) only, sensitive to both.  new_from_slice accepts a key of any
\* length for HMAC, so the Err arm of line 133 is never taken.
HmacSha256(hmac_key, msg) ==
  [i \in 1..DigestLen |->
     (WeightedSum(msg, 1, i) + 7 * WeightedSum(hmac_key, 1, 3 * i)
        + 31 * Len(msg) + i * i) % 256]

fxa_metrics_hash(fxa_uid, hmac_key) ==
  hex_encode(HmacSha256(hmac_key, as_bytes(fxa_uid)))

PseudonymLen == 32

hash_device_id_NoLabel(fxa_uid, device, hmac_key) ==
  SubSeq(fxa_metrics_hash(fxa_uid, hmac_key), 1, PseudonymLen)

hash_device_id(fxa_uid, device, hmac_key) ==
  LET to_hash == fxa_uid \o device
  IN  SubSeq(fxa_metrics_hash(to_hash, hmac_key), 1, PseudonymLen)

DeviceLabel == << "n", "o", "n", "e" >>

\* ------------------------------------------------------------------------
\* String::from_utf8
\* ------------------------------------------------------------------------

IsCont(b) == b >= 128 /\ b <= 191

RECURSIVE Utf8Valid(_)
\* Well-formed UTF-8 (RFC 3629 table): what String::from_utf8 accepts.
Utf8Valid(b) ==
  IF Len(b) = 0 THEN TRUE
  ELSE LET x == b[1] IN
    IF x < 128 THEN Utf8Valid(Tail(b))
    ELSE IF x >= 194 /\ x <= 223 THEN
      /\ Len(b) >= 2
      /\ IsCont(b[2])
      /\ Utf8Valid(SubSeq(b, 3, Len(b)))
    ELSE IF x >= 224 /\ x <= 239 THEN
      /\ Len(b) >= 3
      /\ IF x = 224 THEN b[2] >= 160 /\ b[2] <= 191
         ELSE IF x = 237 THEN b[2] >= 128 /\ b[2] <= 159
         ELSE IsCont(b[2])
      /\ IsCont(b[3])
      /\ Utf8Valid(SubSeq(b, 4, Len(b)))
    ELSE IF x >= 240 /\ x <= 244 THEN
      /\ Len(b) >= 4
      /\ IF x = 240 THEN b[2] >= 144 /\ b[2] <= 191
         ELSE IF x = 244 THEN b[2] >= 128 /\ b[2] <= 143
         ELSE IsCont(b[2])
      /\ IsCont(b[3])
      /\ IsCont(b[4])
      /\ Utf8Valid(SubSeq(b, 5, Len(b)))
    ELSE FALSE

\* ------------------------------------------------------------------------
\* Records of the handler
\* ------------------------------------------------------------------------

NoneNum == [some |-> FALSE, val |-> << 0 >>]

SomeNum(n) == [some |-> TRUE, val |-> n]

NoUser ==
  [node |-> << >>, uid |-> 0, client_state |-> << >>, keys_changed_at |-> NoneNum]

NoPlaintext ==
  [node |-> << >>, fxa_kid |-> << >>, fxa_uid |-> << >>, hashed_device_id |-> << >>,
   hashed_fxa_uid |-> << >>, expires |-> << 0 >>, uid |-> 0]

NoToken == [tag |-> "none", plaintext |-> NoPlaintext, secret |-> << >>]

NoBody ==
  [id |-> NoToken, key |-> NoToken, uid |-> 0, api_endpoint |-> << >>,
   duration |-> << 0 >>, hashed_fxa_uid |-> << >>]

NoOutcome ==
  [kind |-> "none", status |-> "", source |-> "", error |-> "", body |-> NoBody]

\* internal_error(message): logs, then an empty-bodied 500 response, which the ? operator
\* turns into the handler's Err.
internal_error(message) ==
  [kind |-> "error", status |-> "500 Internal Server Error",
   source |-> "internal_error", error |-> message, body |-> NoBody]

\* An error of a collaborator propagated by the ? operator; its HTTP status is whatever
\* the error value itself maps to.
Propagated(source, e) ==
  [kind |-> "error", status |-> "per propagated error", source |-> source,
   error |-> e, body |-> NoBody]

\* A panic unwinding out of the handler: no value is returned at all.
Panicked(source, message) ==
  [kind |-> "panic", status |-> "", source |-> source, error |-> message,
   body |-> NoBody]

OkResponse(result) ==
  [kind |-> "ok", status |-> "200 OK", source |-> "get_tokenserver_result",
   error |-> "", body |-> result]

\* ------------------------------------------------------------------------
\* Pure parts of get_tokenserver_result
\* ------------------------------------------------------------------------

UserEmail(fxa_uid, fxa_email_domain) == fxa_uid \o << "@" >> \o fxa_email_domain

HashedFxaUid(fxa_uid, hmac_key) ==
  SubSeq(fxa_metrics_hash(fxa_uid, hmac_key), 1, PseudonymLen)

\* keys_changed_at.unwrap_or(generation)
KeyIdCounter(keys_changed_at, generation) ==
  IF keys_changed_at.some THEN keys_changed_at.val ELSE generation

FxaKid(user, generation) ==
  LET client_state_b64 == Base64UrlNoPad(user.client_state)
  IN  Format013(KeyIdCounter(user.keys_changed_at, generation))
        \o << "-" >> \o client_state_b64

\* (current_time + Duration::new(duration, 0)).as_secs(): Duration's Add is
\* checked and panics with "overflow when adding durations"; the nanoseconds
\* of current_time are carried along and dropped by as_secs.
ExpiresOverflows(current_time, duration) ==
  ~CheckedAddFits(current_time.secs, duration)

Expires(current_time, duration) == NumAdd(current_time.secs, duration)

MakeTokenPlaintext(user, rq, hashed_fxa_uid, hashed_device_id, fxa_kid, expires) ==
  [node |-> user.node,
   fxa_kid |-> fxa_kid,
   fxa_uid |-> rq.fxa_uid,
   hashed_device_id |-> hashed_device_id,
   hashed_fxa_uid |-> hashed_fxa_uid,
   expires |-> expires,
   uid |-> user.uid]

\* Tokenlib::get_token_and_derived_secret: the minter.  Its contract: an
\* opaque token and a derived secret, both functions of (plaintext, shared
\* secret) and distinct from each other; it fails only on structurally
\* invalid (empty) secret material.
MintFails(plaintext, shared_secret) == Len(shared_secret) = 0

get_token_and_derived_secret(plaintext, shared_secret) ==
  [token |-> [tag |-> "token", plaintext |-> plaintext, secret |-> shared_secret],
   derived_secret |->
     [tag |-> "derived_secret", plaintext |-> plaintext, secret |-> shared_secret]]

ApiEndpoint_V1(node, uid) == node \o << "/", "1", ".", "0", "/" >> \o DisplayInt(uid)

ApiEndpoint(node, uid) == node \o << "/", "1", ".", "5", "/" >> \o DisplayInt(uid)

TokenserverResult(minted, user, rq, hashed_fxa_uid) ==
  [id |-> minted.token,
   key |-> minted.derived_secret,
   uid |-> user.uid,
   api_endpoint |-> ApiEndpoint(user.node, user.uid),
   duration |-> rq.duration,
   hashed_fxa_uid |-> hashed_fxa_uid]

\* ------------------------------------------------------------------------
\* heartbeat
\* ------------------------------------------------------------------------

\* env!("CARGO_PKG_VERSION"): fixed at build time.
PkgVersion == "CARGO_PKG_VERSION"

HeartbeatResponse_Strict(check) ==
  IF check = "Ok(true)" THEN
    [check |-> check, result |-> "Ok", status |-> "200 OK",
     body |-> [version |-> PkgVersion, database |-> "Ok", status |-> "Ok"]]
  ELSE
    [check |-> check, result |-> "Ok", status |-> "503 Service Unavailable",
     body |-> [version |-> PkgVersion, status |-> "Err", database |-> "Unknown"]]

\* The response heartbeat builds from the result of db.check().
HeartbeatResponse(check) ==
  IF check = "Ok(true)" THEN
    [check |-> check, result |-> "Ok", status |-> "200 OK",
     body |-> [version |-> PkgVersion, database |-> "Ok", status |-> "Ok"]]
  ELSE IF check = "Ok(false)" THEN
    [check |-> check, result |-> "Ok", status |-> "200 OK",
     body |-> [version |-> PkgVersion, database |-> "Err",
               database_msg |-> "check failed without error", status |-> "Err"]]
  ELSE
    [check |-> check, result |-> "Ok", status |-> "503 Service Unavailable",
     body |-> [version |-> PkgVersion, status |-> "Err", database |-> "Unknown"]]

\* ------------------------------------------------------------------------
\* Inputs
\* ------------------------------------------------------------------------

NumRequests == 2

Requests == 1..NumRequests

UidAbc == << "a", "b", "c", "1", "2", "3" >>

UidZ == << "z", "9" >>

EmailDomain == << "e", "x", "a", "m", "p", "l", "e", ".", "c", "o", "m" >>

MetricsHashSecret == << "s", "e", "c", "r", "e", "t" >>

Node7 ==
  << "h", "t", "t", "p", "s", ":", "/", "/", "n", "o", "d", "e", "7", ".",
     "e", "x", "a", "m", "p", "l", "e" >>

N2 == << 2 >>

N3 == << 3 >>

N5 == << 5 >>

N7 == << 7 >>

N3600 == << 3, 6, 0, 0 >>

\* 10^13: the first counter that needs 14 digits.
TenTo13 == << 1, 0, 0, 0, 0, 0, 0, 0, 0, 0, 0, 0, 0, 0 >>

\* 2^63 - 1 = 9223372036854775807: a 19-digit counter.
I64_MAX == << 9, 2, 2, 3, 3, 7, 2, 0, 3, 6, 8, 5, 4, 7, 7, 5, 8, 0, 7 >>

NowSecs == << 1, 7, 0, 0, 0, 0, 0, 0, 0, 0 >>

StateUnregistered ==
  [registered |-> FALSE, present |-> FALSE,
   fxa_email_domain |-> << >>, fxa_metrics_hash_secret |-> << >>]

StateNone ==
  [registered |-> TRUE, present |-> FALSE,
   fxa_email_domain |-> << >>, fxa_metrics_hash_secret |-> << >>]

StateSome ==
  [registered |-> TRUE, present |-> TRUE,
   fxa_email_domain |-> EmailDomain, fxa_metrics_hash_secret |-> MetricsHashSecret]

AppStates == {StateUnregistered, StateNone, StateSome}

SecretsUnregistered == [registered |-> FALSE, master_secret |-> << >>]

SecretsOf(bytes) == [registered |-> TRUE, master_secret |-> bytes]

\* "Ted", two bytes that are not UTF-8, and an empty secret.
AppSecrets ==
  {SecretsUnregistered, SecretsOf(<< 84, 101, 100 >>), SecretsOf(<< 255, 254 >>),
   SecretsOf(<< >>)}

TokenserverRequests ==
  [fxa_uid : {UidAbc, UidZ}, generation : {N3, N7}, duration : {N3600, U64_MAX}]

Users ==
  [node : {Node7}, uid : {42, -3}, client_state : {<< 1, 2 >>, << 251, 255, 190, 7 >>},
   keys_changed_at : {NoneNum, SomeNum(N2), SomeNum(N5), SomeNum(TenTo13),
                      SomeNum(I64_MAX)}]

LookupResults ==
  [ok : {TRUE}, error : {""}, user : Users]
    \cup [ok : {FALSE}, error : {"no such user", "database unavailable"}, user : {NoUser}]

ClockUnavailable == [ok |-> FALSE, secs |-> << 0 >>, nanos |-> 0]

ClockReadings ==
  {ClockUnavailable,
   [ok |-> TRUE, secs |-> NowSecs, nanos |-> 0],
   [ok |-> TRUE, secs |-> NowSecs, nanos |-> 999999999]}

\* What the collaborators answer to one request: the pool checkout, the
\* node-assignment lookup and the wall clock.
Environments == [pool_ok : BOOLEAN, lookup : LookupResults, clock : ClockReadings]

IdleRequest == [fxa_uid |-> << >>, generation |-> << 0 >>, duration |-> << 0 >>]

IdleEnvironment ==
  [pool_ok |-> TRUE, lookup |-> [ok |-> FALSE, error |-> "", user |-> NoUser],
   clock |-> ClockUnavailable]

\* Inputs of the concurrent runs: two request shapes, two lookup answers.
ConcRequests ==
  {[fxa_uid |-> UidAbc, generation |-> N7, duration |-> N3600],
   [fxa_uid |-> UidZ, generation |-> N3, duration |-> U64_MAX]}

ConcEnvironments ==
  [pool_ok : {TRUE},
   lookup : {[ok |-> FALSE, error |-> "no such user", user |-> NoUser],
             [ok |-> TRUE, error |-> "",
              user |-> [node |-> Node7, uid |-> 42, client_state |-> << 1, 2 >>,
                        keys_changed_at |-> SomeNum(N2)]]},
   clock : {[ok |-> TRUE, secs |-> NowSecs, nanos |-> 0]}]

\* ------------------------------------------------------------------------
\* State
\* ------------------------------------------------------------------------

VARIABLES
  app_state,           \* Data<Option<ServerState>> registered with the app
  app_secrets,         \* Data<Arc<Secrets>> registered with the app
  req,                 \* req[r]: the TokenserverRequest of request r
  env,                 \* env[r]: what the collaborators answer to request r
  pc,                  \* pc[r]: the handler's position
  loc,                 \* loc[r]: the handler's local variables
  outcome,             \* outcome[r]: how the handler ended
  calls,               \* calls[r]: collaborators invoked so far, in order
  heartbeat_response   \* the last response of heartbeat

vars ==
  << app_state, app_secrets, req, env, pc, loc, outcome, calls, heartbeat_response >>

NoLocals ==
  [user_email |-> << >>, tokenserver_user |-> NoUser, hashed_fxa_uid |-> << >>,
   hashed_device_id |-> << >>, fxa_kid |-> << >>, shared_secret |-> << >>,
   make_token_plaintext |-> NoPlaintext, minted |-> [token |-> NoToken,
                                                      derived_secret |-> NoToken]]

NoHeartbeat ==
  [check |-> "not called", result |-> "", status |-> "", body |-> [version |-> PkgVersion]]

InitCommon ==
  /\ loc = [r \in Requests |-> NoLocals]
  /\ outcome = [r \in Requests |-> NoOutcome]
  /\ calls = [r \in Requests |-> << >>]
  /\ heartbeat_response = NoHeartbeat

\* One request against every configuration and every answer of the
\* collaborators.
Init ==
  /\ app_state \in AppStates
  /\ app_secrets \in AppSecrets
  /\ \E rq \in TokenserverRequests :
       req = [r \in Requests |-> IF r = 1 THEN rq ELSE IdleRequest]
  /\ \E e \in Environments :
       env = [r \in Requests |-> IF r = 1 THEN e ELSE IdleEnvironment]
  /\ pc = [r \in Requests |-> IF r = 1 THEN "load_state" ELSE "idle"]
  /\ InitCommon

\* NumRequests requests in flight at once against a valid configuration.
InitConc ==
  /\ app_state = StateSome
  /\ app_secrets = SecretsOf(<< 84, 101, 100 >>)
  /\ req \in [Requests -> ConcRequests]
  /\ env \in [Requests -> ConcEnvironments]
  /\ pc = [r \in Requests |-> "load_state"]
  /\ InitCommon

\* ------------------------------------------------------------------------
\* get_tokenserver_result, step by step
\* ------------------------------------------------------------------------

Finish(r, o) ==
  /\ outcome' = [outcome EXCEPT ![r] = o]
  /\ pc' = [pc EXCEPT ![r] = "done"]

Goto(r, label) ==
  /\ pc' = [pc EXCEPT ![r] = label]
  /\ UNCHANGED outcome

Call(r, name) == calls' = [calls EXCEPT ![r] = Append(@, name)]

\* request.app_data::<Data<Option<ServerState>>>().ok_or_else(..)?
\*   .as_ref().as_ref().unwrap()
LoadState(r) ==
  /\ pc[r] = "load_state"
  /\ IF ~app_state.registered
       THEN Finish(r, internal_error("Could not load the app state"))
     ELSE IF ~app_state.present
       THEN Finish(r, Panicked("state.unwrap",
                               "called Option::unwrap() on a None value"))
     ELSE Goto(r, "get_db")
  /\ UNCHANGED << app_state, app_secrets, req, env, loc, calls, heartbeat_response >>

\* state.db_pool.clone().get().map_err(ApiError::from)?
GetDb(r) ==
  /\ pc[r] = "get_db"
  /\ Call(r, "db_pool.get")
  /\ IF env[r].pool_ok
       THEN Goto(r, "get_user")
       ELSE Finish(r, Propagated("db_pool.get", "pool error"))
  /\ UNCHANGED << app_state, app_secrets, req, env, loc, heartbeat_response >>

GetUser_Masked(r) ==
  /\ pc[r] = "get_user"
  /\ Call(r, "db.get_user")
  /\ loc' = [loc EXCEPT
       ![r].user_email = UserEmail(req[r].fxa_uid, app_state.fxa_email_domain),
       ![r].tokenserver_user = env[r].lookup.user]
  /\ Goto(r, "hash")
  /\ UNCHANGED << app_state, app_secrets, req, env, heartbeat_response >>

\* user_email = format!("{}@{}", ..); db.get_user(params).await?
GetUser(r) ==
  /\ pc[r] = "get_user"
  /\ Call(r, "db.get_user")
  /\ IF env[r].lookup.ok
       THEN /\ loc' = [loc EXCEPT
                 ![r].user_email =
                    UserEmail(req[r].fxa_uid, app_state.fxa_email_domain),
                 ![r].tokenserver_user = env[r].lookup.user]
            /\ Goto(r, "hash")
       ELSE /\ loc' = [loc EXCEPT
                 ![r].user_email =
                    UserEmail(req[r].fxa_uid, app_state.fxa_email_domain)]
            /\ Finish(r, Propagated("db.get_user", env[r].lookup.error))
  /\ UNCHANGED << app_state, app_secrets, req, env, heartbeat_response >>

\* hashed_fxa_uid = fxa_metrics_hash(fxa_uid, key)?[0..32];
\* hashed_device_id = hash_device_id(hashed_fxa_uid, "none", key)?
HashIds(r) ==
  /\ pc[r] = "hash"
  /\ LET hmac_key == as_bytes(app_state.fxa_metrics_hash_secret)
         hashed_fxa_uid == HashedFxaUid(req[r].fxa_uid, hmac_key)
     IN  loc' = [loc EXCEPT
           ![r].hashed_fxa_uid = hashed_fxa_uid,
           ![r].hashed_device_id =
              hash_device_id(hashed_fxa_uid, DeviceLabel, hmac_key)]
  /\ calls' = [calls EXCEPT ![r] = @ \o << "fxa_metrics_hash", "hash_device_id" >>]
  /\ Goto(r, "kid")
  /\ UNCHANGED << app_state, app_secrets, req, env, heartbeat_response >>

\* fxa_kid = format!("{:013}-{:}", keys_changed_at.unwrap_or(generation), b64)
BuildKid(r) ==
  /\ pc[r] = "kid"
  /\ loc' = [loc EXCEPT
       ![r].fxa_kid = FxaKid(loc[r].tokenserver_user, req[r].generation)]
  /\ Goto(r, "secret")
  /\ UNCHANGED << app_state, app_secrets, req, env, calls, heartbeat_response >>

\* shared_secret = String::from_utf8(app_data::<Data<Arc<Secrets>>>()
\*   .ok_or_else(..)?.master_secret.clone()).map_err(..)?
LoadSecret(r) ==
  /\ pc[r] = "secret"
  /\ IF ~app_secrets.registered
       THEN /\ Finish(r, internal_error("Could not load the app secrets"))
            /\ UNCHANGED loc
     ELSE IF ~Utf8Valid(app_secrets.master_secret)
       THEN /\ Finish(r, internal_error("Failed to read master secret"))
            /\ UNCHANGED loc
     ELSE /\ loc' = [loc EXCEPT ![r].shared_secret = app_secrets.master_secret]
          /\ Goto(r, "plaintext")
  /\ UNCHANGED << app_state, app_secrets, req, env, calls, heartbeat_response >>

\* expires = (SystemTime::now().duration_since(UNIX_EPOCH).unwrap()
\*            + Duration::new(duration, 0)).as_secs(); MakeTokenPlaintext {..}
MakePlaintext(r) ==
  /\ pc[r] = "plaintext"
  /\ Call(r, "SystemTime::now")
  /\ IF ~env[r].clock.ok
       THEN /\ Finish(r, Panicked("duration_since.unwrap",
                                  "called Result::unwrap() on an Err value"))
            /\ UNCHANGED loc
     ELSE IF ExpiresOverflows(env[r].clock, req[r].duration)
       THEN /\ Finish(r, Panicked("Duration::add", "overflow when adding durations"))
            /\ UNCHANGED loc
     ELSE /\ loc' = [loc EXCEPT
               ![r].make_token_plaintext =
                  MakeTokenPlaintext(loc[r].tokenserver_user, req[r],
                                     loc[r].hashed_fxa_uid, loc[r].hashed_device_id,
                                     loc[r].fxa_kid,
                                     Expires(env[r].clock, req[r].duration))]
          /\ Goto(r, "mint")
  /\ UNCHANGED << app_state, app_secrets, req, env, heartbeat_response >>

\* Tokenlib::get_token_and_derived_secret(make_token_plaintext, &shared_secret)?
Mint(r) ==
  /\ pc[r] = "mint"
  /\ Call(r, "Tokenlib::get_token_and_derived_secret")
  /\ IF MintFails(loc[r].make_token_plaintext, loc[r].shared_secret)
       THEN /\ Finish(r, Propagated("Tokenlib::get_token_and_derived_secret",
                                    "invalid secret"))
            /\ UNCHANGED loc
       ELSE /\ loc' = [loc EXCEPT
                 ![r].minted = get_token_and_derived_secret(
                                 loc[r].make_token_plaintext, loc[r].shared_secret)]
            /\ Goto(r, "respond")
  /\ UNCHANGED << app_state, app_secrets, req, env, heartbeat_response >>

Respond_Shared(r) ==
  /\ pc[r] = "respond"
  /\ Finish(r, OkResponse(TokenserverResult(loc[1].minted, loc[1].tokenserver_user,
                                            req[1], loc[1].hashed_fxa_uid)))
  /\ UNCHANGED << app_state, app_secrets, req, env, loc, calls, heartbeat_response >>

\* api_endpoint, TokenserverResult {..}, Ok(HttpResponse::build(OK).json(result))
Respond(r) ==
  /\ pc[r] = "respond"
  /\ Finish(r, OkResponse(TokenserverResult(loc[r].minted, loc[r].tokenserver_user,
                                            req[r], loc[r].hashed_fxa_uid)))
  /\ UNCHANGED << app_state, app_secrets, req, env, loc, calls, heartbeat_response >>

\* heartbeat: one db.check(), one response.
Heartbeat ==
  /\ \E check \in {"Ok(true)", "Ok(false)", "Err"} :
       heartbeat_response' = HeartbeatResponse(check)
  /\ UNCHANGED << app_state, app_secrets, req, env, pc, loc, outcome, calls >>

Next ==
  \/ \E r \in Requests : LoadState(r)
  \/ \E r \in Requests : GetDb(r)
  \/ \E r \in Requests : GetUser(r)
  \/ \E r \in Requests : HashIds(r)
  \/ \E r \in Requests : BuildKid(r)
  \/ \E r \in Requests : LoadSecret(r)
  \/ \E r \in Requests : MakePlaintext(r)
  \/ \E r \in Requests : Mint(r)
  \/ \E r \in Requests : Respond(r)
  \/ Heartbeat

Spec == Init /\ [][Next]_vars

SpecConc == InitConc /\ [][Next]_vars

\* ------------------------------------------------------------------------
\* The handler run alone
\* ------------------------------------------------------------------------

\* The outcome of get_tokenserver_result as one sequential computation from
\* the request, the collaborators' answers and the configuration.
HandlerResult(rq, e, st, sec) ==
  IF ~st.registered THEN internal_error("Could not load the app state")
  ELSE IF ~st.present
    THEN Panicked("state.unwrap", "called Option::unwrap() on a None value")
  ELSE IF ~e.pool_ok THEN Propagated("db_pool.get", "pool error")
  ELSE IF ~e.lookup.ok THEN Propagated("db.get_user", e.lookup.error)
  ELSE IF ~sec.registered THEN internal_error("Could not load the app secrets")
  ELSE IF ~Utf8Valid(sec.master_secret)
    THEN internal_error("Failed to read master secret")
  ELSE IF ~e.clock.ok
    THEN Panicked("duration_since.unwrap",
                  "called Result::unwrap() on an Err value")
  ELSE IF ExpiresOverflows(e.clock, rq.duration)
    THEN Panicked("Duration::add", "overflow when adding durations")
  ELSE
    LET user == e.lookup.user
        hmac_key == as_bytes(st.fxa_metrics_hash_secret)
        hashed_fxa_uid == HashedFxaUid(rq.fxa_uid, hmac_key)
        plaintext ==
          MakeTokenPlaintext(user, rq, hashed_fxa_uid,
                             hash_device_id(hashed_fxa_uid, DeviceLabel, hmac_key),
                             FxaKid(user, rq.generation),
                             Expires(e.clock, rq.duration))
    IN  IF MintFails(plaintext, sec.master_secret)
          THEN Propagated("Tokenlib::get_token_and_derived_secret", "invalid secret")
          ELSE OkResponse(TokenserverResult(
                 get_token_and_derived_secret(plaintext, sec.master_secret),
                 user, rq, hashed_fxa_uid))

\* ------------------------------------------------------------------------
\* Reading back what the handler wrote
\* ------------------------------------------------------------------------

IsDigitChar(c) == \E d \in 0..9 : DecChars[d + 1] = c

DigitVal(c) == CHOOSE d \in 0..9 : DecChars[d + 1] = c

RECURSIVE StripZeros(_)
StripZeros(n) == IF Len(n) > 1 /\ n[1] = 0 THEN StripZeros(Tail(n)) ELSE n

\* The counter a run of decimal digits denotes.
ParseNum(s) == StripZeros([i \in 1..Len(s) |-> DigitVal(s[i])])

RECURSIVE DigitsValue(_)
DigitsValue(s) ==
  IF Len(s) = 0 THEN 0
  ELSE 10 * DigitsValue(SubSeq(s, 1, Len(s) - 1)) + DigitVal(s[Len(s)])

\* The signed integer a decimal string denotes.
ParseInt(s) == IF s[1] = "-" THEN 0 - DigitsValue(Tail(s)) ELSE DigitsValue(s)

HasHyphen(s) == \E i \in 1..Len(s) : s[i] = "-"

FirstHyphen(s) ==
  CHOOSE i \in 1..Len(s) : s[i] = "-" /\ \A j \in 1..(i - 1) : s[j] /= "-"

\* The part of a key-id before its first hyphen, and the part after it.
KidPrefix(kid) == SubSeq(kid, 1, FirstHyphen(kid) - 1)

KidSuffix(kid) == SubSeq(kid, FirstHyphen(kid) + 1, Len(kid))

IsB64Char(c) == \E v \in 0..63 : UrlSafeAlphabet[v + 1] = c

B64Val(c) == CHOOSE v \in 0..63 : UrlSafeAlphabet[v + 1] = c

RECURSIVE Base64UrlDecode(_)
\* Decoder of unpadded URL-safe base64 (a single trailing character decodes
\* to nothing).
Base64UrlDecode(s) ==
  IF Len(s) < 2 THEN << >>
  ELSE LET a == B64Val(s[1])
           b == B64Val(s[2])
       IN  IF Len(s) = 2 THEN << a * 4 + b \div 16 >>
           ELSE LET c == B64Val(s[3]) IN
             IF Len(s) = 3 THEN << a * 4 + b \div 16, (b % 16) * 16 + c \div 4 >>
             ELSE << a * 4 + b \div 16, (b % 16) * 16 + c \div 4,
                     (c % 4) * 64 + B64Val(s[4]) >>
                  \o Base64UrlDecode(SubSeq(s, 5, Len(s)))

IsLowerHex(s) == \A i \in 1..Len(s) : \E h \in 1..16 : HexChars[h] = s[i]

IsPrefixOf(p, s) == Len(p) <= Len(s) /\ \A i \in 1..Len(p) : p[i] = s[i]

Called(r, name) == \E i \in 1..Len(calls[r]) : calls[r][i] = name

\* The handler of request r has built the credential plaintext.
PlaintextBuilt(r) == loc[r].make_token_plaintext /= NoPlaintext

Succeeded(r) == pc[r] = "done" /\ outcome[r].kind = "ok"

\* ------------------------------------------------------------------------
\* Properties
\* ------------------------------------------------------------------------

\* C1: the numeric prefix of the key-id in the credential plaintext is
\* max(keys_changed_at, generation) when keys_changed_at is present, and
\* generation when it is absent.
C1_KeyIdIsMax ==
  \A r \in Requests :
    PlaintextBuilt(r) =>
      LET kca == loc[r].tokenserver_user.keys_changed_at
          prefix == KidPrefix(loc[r].make_token_plaintext.fxa_kid)
      IN  ParseNum(prefix) =
            IF kca.some THEN NumMax(kca.val, req[r].generation)
                        ELSE req[r].generation

\* C2 as stated: whatever the counter, the key-id has exactly 13 decimal
\* digits before the hyphen, then the hyphen, then the URL-safe unpadded
\* base64 of the client state.
C2_Exactly13Digits ==
  \A r \in Requests :
    PlaintextBuilt(r) =>
      LET kid == loc[r].make_token_plaintext.fxa_kid
      IN  /\ HasHyphen(kid)
          /\ Len(KidPrefix(kid)) = 13
          /\ \A i \in 1..Len(KidPrefix(kid)) : IsDigitChar(KidPrefix(kid)[i])
          /\ Base64UrlDecode(KidSuffix(kid)) = loc[r].tokenserver_user.client_state

\* C2 amended: before the hyphen stand the counter's decimal digits, padded
\* with zeros on the left to at least 13 digits: exactly 13 when the counter
\* is below 10^13, all of the counter's digits (14 or more) otherwise; after
\* the hyphen stands the URL-safe unpadded base64 of the client state.
C2_AtLeast13Digits ==
  \A r \in Requests :
    PlaintextBuilt(r) =>
      LET user == loc[r].tokenserver_user
          counter == IF user.keys_changed_at.some THEN user.keys_changed_at.val
                     ELSE req[r].generation
          kid == loc[r].make_token_plaintext.fxa_kid
          prefix == KidPrefix(kid)
          suffix == KidSuffix(kid)
          n == Len(user.client_state)
      IN  /\ HasHyphen(kid)
          /\ \A i \in 1..Len(prefix) : IsDigitChar(prefix[i])
          /\ ParseNum(prefix) = counter
          /\ Len(prefix) = IF NumLess(counter, TenTo13) THEN 13 ELSE Len(counter)
          /\ \A i \in 1..Len(suffix) : IsB64Char(suffix[i])
          /\ Len(suffix) = (4 * n + 2) \div 3
          /\ Base64UrlDecode(suffix) = user.client_state

\* A plaintext whose counter is 10^13 or more: 14 digits before the hyphen.
C2_Witness ==
  \E r \in Requests :
    /\ PlaintextBuilt(r)
    /\ loc[r].tokenserver_user.keys_changed_at = SomeNum(TenTo13)
    /\ Len(KidPrefix(loc[r].make_token_plaintext.fxa_kid)) = 14

\* C3: once the clock has been read as T, the handler does not abort on the
\* addition and the expiry of the plaintext is T + duration.
C3_ExpiryIsSum ==
  \A r \in Requests :
    (Called(r, "SystemTime::now") /\ env[r].clock.ok) =>
      /\ outcome[r].kind /= "panic"
      /\ loc[r].make_token_plaintext.expires
           = NumAdd(env[r].clock.secs, req[r].duration)

\* C4: a failed node-assignment lookup ends the handler with that very
\* error; neither the identifier hasher nor the minter is invoked and no
\* success response is produced.
C4_LookupFailurePropagates ==
  \A r \in Requests :
    (Called(r, "db.get_user") /\ ~env[r].lookup.ok) =>
      /\ pc[r] = "done"
      /\ outcome[r].kind = "error"
      /\ outcome[r].source = "db.get_user"
      /\ outcome[r].error = env[r].lookup.error
      /\ outcome[r].body = NoBody
      /\ ~Called(r, "fxa_metrics_hash")
      /\ ~Called(r, "hash_device_id")
      /\ ~Called(r, "Tokenlib::get_token_and_derived_secret")
      /\ loc[r].hashed_fxa_uid = << >>
      /\ loc[r].minted.token = NoToken

\* A request whose lookup failed and whose handler has returned.
C4_Witness ==
  \E r \in Requests :
    /\ Called(r, "db.get_user")
    /\ ~env[r].lookup.ok
    /\ env[r].lookup.error = "no such user"
    /\ pc[r] = "done"

\* C5: when the wall clock cannot be read, the handler returns an error; it
\* does not panic and does not mint.
C5_ClockFailureIsError ==
  \A r \in Requests :
    (Called(r, "SystemTime::now") /\ ~env[r].clock.ok) =>
      /\ outcome[r].kind = "error"
      /\ ~Called(r, "Tokenlib::get_token_and_derived_secret")

ConfigBad ==
  \/ ~app_state.registered
  \/ ~app_state.present
  \/ ~app_secrets.registered
  \/ ~Utf8Valid(app_secrets.master_secret)

\* C6: with missing or invalid configuration the handler returns a 500
\* internal error; it never panics and never succeeds.
C6_BadConfigIs500 ==
  \A r \in Requests :
    (pc[r] = "done" /\ ConfigBad) =>
      /\ outcome[r].kind = "error"
      /\ outcome[r].status = "500 Internal Server Error"

\* C7: in a success response the account pseudonym (the same in the response
\* and in the plaintext) is the first 32 characters of
\* fxa_metrics_hash(raw identifier, key); the device pseudonym is the first
\* 32 characters of fxa_metrics_hash(account pseudonym ++ "none", key); both
\* digests are 64 lowercase hex characters.
C7_Pseudonyms ==
  \A r \in Requests :
    Succeeded(r) =>
      LET key == as_bytes(app_state.fxa_metrics_hash_secret)
          plaintext == outcome[r].body.id.plaintext
          account == outcome[r].body.hashed_fxa_uid
          device == plaintext.hashed_device_id
          full == fxa_metrics_hash(req[r].fxa_uid, key)
          device_full == fxa_metrics_hash(account \o << "n", "o", "n", "e" >>, key)
      IN  /\ plaintext.hashed_fxa_uid = account
          /\ Len(full) = 64 /\ IsLowerHex(full)
          /\ Len(account) = 32 /\ IsPrefixOf(account, full)
          /\ Len(device_full) = 64 /\ IsLowerHex(device_full)
          /\ Len(device) = 32 /\ IsPrefixOf(device, device_full)

\* A success response carrying both pseudonyms.
C7_Witness ==
  \E r \in Requests :
    /\ Succeeded(r)
    /\ req[r].fxa_uid = UidAbc
    /\ Len(outcome[r].body.id.plaintext.hashed_device_id) = 32

\* C8: in a success response uid is the looked-up uid, api_endpoint is the
\* looked-up node followed by "/1.5/" and that uid, duration is the requested
\* duration, and the plaintext handed to the minter carries the same uid.
C8_ResponseFields ==
  \A r \in Requests :
    Succeeded(r) =>
      LET user == env[r].lookup.user
          body == outcome[r].body
          n == Len(user.node)
      IN  /\ body.uid = user.uid
          /\ Len(body.api_endpoint) > n + 5
          /\ SubSeq(body.api_endpoint, 1, n) = user.node
          /\ SubSeq(body.api_endpoint, n + 1, n + 5) = << "/", "1", ".", "5", "/" >>
          /\ ParseInt(SubSeq(body.api_endpoint, n + 6, Len(body.api_endpoint)))
               = user.uid
          /\ body.duration = req[r].duration
          /\ body.id.plaintext.uid = body.uid
          /\ body.id.plaintext = loc[r].make_token_plaintext

\* A success response for a negative uid.
C8_Witness ==
  \E r \in Requests :
    /\ Succeeded(r)
    /\ env[r].lookup.user.uid = -3
    /\ outcome[r].body.duration = N3600

\* C9: under any interleaving each request ends as it would have run alone
\* on the same request, answers and configuration; a step changes the state
\* of one request only and never the configuration.
C9_Isolation ==
  /\ [](\A r \in Requests :
          pc[r] = "done" =>
            outcome[r] = HandlerResult(req[r], env[r], app_state, app_secrets))
  /\ [][/\ app_state' = app_state
        /\ app_secrets' = app_secrets
        /\ \A r1, r2 \in Requests :
             (r1 /= r2 /\ << pc[r1], loc[r1], outcome[r1], calls[r1] >>
                            /= << pc'[r1], loc'[r1], outcome'[r1], calls'[r1] >>)
               => << pc[r2], loc[r2], outcome[r2], calls[r2] >>
                    = << pc'[r2], loc'[r2], outcome'[r2], calls'[r2] >>]_vars

\* Two requests with different inputs have both finished, differently.
C9_Witness ==
  /\ \A r \in Requests : pc[r] = "done"
  /\ outcome[1].kind = "ok"
  /\ outcome[2].kind /= "ok"
  /\ req[1] /= req[2]

\* C10: heartbeat always returns a response; its "status" is "Ok" exactly
\* when db.check() returned Ok(true); it is a 503 exactly when db.check()
\* returned an error (database "Unknown") and a 200 otherwise, also for
\* Ok(false) (status "Err", database "Err", database_msg set).
C10_Heartbeat ==
  heartbeat_response.check /= "not called" =>
    LET h == heartbeat_response IN
      /\ h.result = "Ok"
      /\ (h.body.status = "Ok") <=> (h.check = "Ok(true)")
      /\ (h.status = "503 Service Unavailable") <=> (h.check = "Err")
      /\ (h.status /= "503 Service Unavailable") => (h.status = "200 OK")
      /\ (h.check = "Err") => (h.body.database = "Unknown")
      /\ (h.check = "Ok(false)") =>
           /\ h.body.status = "Err"
           /\ h.body.database = "Err"
           /\ "database_msg" \in DOMAIN h.body

\* db.check() returned Ok(false) and heartbeat answered 200.
C10_Witness ==
  /\ heartbeat_response.check = "Ok(false)"
  /\ heartbeat_response.status = "200 OK"

====
